---------------------------- MODULE Spec2Model ----------------------------
(*************************************************************************)
(* A model of rusty-at-sudoku (src/src/lib.rs): the 81-cell grid, its    *)
(* row / column / square views, is_valid, the recursive backtracking     *)
(* solver solve / solve_impl, the parser read_from and the Debug         *)
(* rendering of a grid.                                                  *)
(*************************************************************************)
EXTENDS Integers, Sequences, FiniteSets, TLC

(*************************************************************************)
(* Program constants (lib.rs:5-8).                                       *)
(*************************************************************************)
MAX_ROWS == 9
MAX_COLS == 9
MAX_SQUARES == 9
MAX_INDEX == MAX_COLS * MAX_ROWS

\* The side of a square, the literal 3 of square_of and SquareIter::next.
SQUARE_SIDE == 3

Cells == 0 .. (MAX_INDEX - 1)
Digits == 1 .. 9

(*************************************************************************)
(* enum Field { Empty, Filled(u8) } and Option<T>, as tagged tuples.     *)
(*************************************************************************)
Empty == <<"Empty">>
Filled(value) == <<"Filled", value>>

None == <<"None">>
\* A call that has not been made yet, and a call that panicked.
NotRun == <<"NotRun">>
Panicked == <<"Panicked">>
Some(x) == <<"Some", x>>
IsSome(o) == o[1] = "Some"
Unwrap(o) == o[2]

Range(s) == {s[k] : k \in DOMAIN s}

(*************************************************************************)
(* The grids of the test module, one digit per cell, 0 for '*'.          *)
(*************************************************************************)
FromDigits(ds) == [i \in Cells |-> IF ds[i + 1] = 0 THEN Empty ELSE Filled(ds[i + 1])]

EmptyPuzzle == [i \in Cells |-> Empty]

FullPuzzle == [i \in Cells |-> Filled((i % 9) + 1)]

RowIterPuzzle ==
    FromDigits(<<1, 2, 3, 4, 5, 6, 7, 8, 9>> \o
               <<2, 3, 4, 5, 6, 7, 8, 9, 1>> \o
               <<3, 4, 5, 6, 7, 8, 9, 1, 2>> \o
               <<4, 5, 6, 7, 8, 9, 1, 2, 3>> \o
               <<5, 6, 7, 8, 9, 1, 2, 3, 4>> \o
               <<6, 7, 8, 9, 1, 2, 3, 4, 5>> \o
               <<7, 8, 9, 1, 2, 3, 4, 5, 6>> \o
               <<8, 9, 1, 2, 3, 4, 5, 6, 7>> \o
               <<9, 1, 2, 3, 4, 5, 6, 7, 8>>)

SquareIterPuzzle ==
    FromDigits(<<1, 2, 3, 2, 3, 4, 3, 4, 5>> \o
               <<4, 5, 6, 5, 6, 7, 6, 7, 8>> \o
               <<7, 8, 9, 8, 9, 1, 9, 1, 2>> \o
               <<4, 5, 6, 5, 6, 7, 6, 7, 8>> \o
               <<7, 8, 9, 8, 9, 1, 9, 1, 2>> \o
               <<1, 2, 3, 2, 3, 4, 3, 4, 5>> \o
               <<7, 8, 9, 8, 9, 1, 9, 1, 2>> \o
               <<1, 2, 3, 2, 3, 4, 3, 4, 5>> \o
               <<4, 5, 6, 5, 6, 7, 6, 7, 8>>)

ValidPuzzle ==
    FromDigits(<<1, 2, 3, 4, 5, 6, 7, 8, 9>> \o
               <<4, 5, 6, 7, 8, 9, 1, 2, 3>> \o
               <<7, 8, 9, 1, 2, 3, 4, 5, 6>> \o
               <<2, 3, 4, 5, 6, 7, 8, 9, 1>> \o
               <<5, 6, 7, 8, 9, 1, 2, 3, 4>> \o
               <<8, 9, 1, 2, 3, 4, 5, 6, 7>> \o
               <<3, 4, 5, 6, 7, 8, 9, 1, 2>> \o
               <<6, 7, 8, 9, 1, 2, 3, 4, 5>> \o
               <<9, 1, 2, 3, 4, 5, 6, 7, 8>>)

EasyPuzzle ==
    FromDigits(<<0, 8, 6, 0, 4, 1, 0, 3, 9>> \o
               <<0, 4, 0, 0, 0, 7, 8, 0, 0>> \o
               <<0, 0, 9, 0, 0, 6, 2, 4, 0>> \o
               <<7, 3, 0, 0, 0, 4, 6, 0, 0>> \o
               <<1, 0, 0, 2, 0, 0, 0, 9, 5>> \o
               <<0, 0, 0, 6, 5, 0, 0, 7, 4>> \o
               <<0, 0, 2, 0, 6, 9, 5, 0, 3>> \o
               <<8, 0, 0, 3, 1, 0, 0, 0, 2>> \o
               <<6, 5, 3, 0, 0, 0, 9, 0, 0>>)

EasyAnswer ==
    FromDigits(<<2, 8, 6, 5, 4, 1, 7, 3, 9>> \o
               <<3, 4, 1, 9, 2, 7, 8, 5, 6>> \o
               <<5, 7, 9, 8, 3, 6, 2, 4, 1>> \o
               <<7, 3, 5, 1, 9, 4, 6, 2, 8>> \o
               <<1, 6, 4, 2, 7, 8, 3, 9, 5>> \o
               <<9, 2, 8, 6, 5, 3, 1, 7, 4>> \o
               <<4, 1, 2, 7, 6, 9, 5, 8, 3>> \o
               <<8, 9, 7, 3, 1, 5, 4, 6, 2>> \o
               <<6, 5, 3, 4, 8, 2, 9, 1, 7>>)

(*************************************************************************)
(* Views.  Each iterator is modelled by the sequence of array indices it *)
(* reads, in the order it reads them; the view is the cells there.       *)
(*************************************************************************)
Gather(fields, indices) == [k \in DOMAIN indices |-> fields[indices[k]]]

\* Rows::next, called (row_index + 1) times: the slice
\* fields[curr_index .. curr_index + MAX_COLS] with curr_index = MAX_COLS * row_index.
RowIndices(row_index) ==
    [k \in 1 .. MAX_COLS |-> (MAX_COLS * row_index) + (k - 1)]

\* ColIter::next from curr_index on: one cell every MAX_ROWS, until MAX_INDEX.
RECURSIVE ColIter(_)
ColIter(curr_index) ==
    IF curr_index >= MAX_INDEX
    THEN << >>
    ELSE <<curr_index>> \o ColIter(curr_index + MAX_ROWS)

\* Cols::next gives Col { start_index: curr_col }.
ColIndices(col) == ColIter(col)

\* SquareIterIndex with the roles of % and / exchanged: the square read
\* column by column.
SquareIterIndexTransposed(square, curr_index) ==
    LET square_col_index == curr_index \div SQUARE_SIDE
        square_row_index == curr_index % SQUARE_SIDE
        col_index == square_col_index + SQUARE_SIDE * (square % SQUARE_SIDE)
        row_index == square_row_index + SQUARE_SIDE * (square \div SQUARE_SIDE)
    IN  col_index + MAX_COLS * row_index

\* SquareIter::next for curr_index = 0 .. MAX_SQUARES - 1.
SquareIterIndex(square, curr_index) ==
    LET square_col_index == curr_index % SQUARE_SIDE
        square_row_index == curr_index \div SQUARE_SIDE
        col_index == square_col_index + SQUARE_SIDE * (square % SQUARE_SIDE)
        row_index == square_row_index + SQUARE_SIDE * (square \div SQUARE_SIDE)
    IN  col_index + MAX_COLS * row_index

SquareIndices(square) ==
    [k \in 1 .. MAX_SQUARES |-> SquareIterIndex(square, k - 1)]

\* rows(), cols(), squares(): the views the three top-level iterators yield.
rows(puzzle) == [r \in 1 .. MAX_ROWS |-> Gather(puzzle, RowIndices(r - 1))]
cols(puzzle) == [c \in 1 .. MAX_COLS |-> Gather(puzzle, ColIndices(c - 1))]
squares(puzzle) == [s \in 1 .. MAX_SQUARES |-> Gather(puzzle, SquareIndices(s - 1))]

row_of_index(index) == index \div MAX_COLS
col_of_index(index) == index % MAX_ROWS
square_of_index(index) ==
    LET col_index == (index % 9) \div SQUARE_SIDE
        row_index == (index \div 9) \div SQUARE_SIDE
    IN  col_index + SQUARE_SIDE * row_index

row_of(puzzle, index) == rows(puzzle)[row_of_index(index) + 1]
col_of(puzzle, index) == cols(puzzle)[col_of_index(index) + 1]
square_of(puzzle, index) == squares(puzzle)[square_of_index(index) + 1]

Contains(view, field) == \E k \in DOMAIN view : view[k] = field

\* itertools unique().count()
UniqueCount(view) == Cardinality(Range(view))

\* ViewOk without the test of uniqueness.
ViewFilled(view) == ~Contains(view, Empty)

ViewOk(view) ==
    LET is_filled == ~Contains(view, Empty)
        is_unique == UniqueCount(view) = 9
    IN  is_filled /\ is_unique

\* is_valid without its third loop, the one over squares().
is_valid_without_squares(puzzle) ==
    /\ \A r \in 1 .. MAX_ROWS : ViewOk(rows(puzzle)[r])
    /\ \A c \in 1 .. MAX_COLS : ViewOk(cols(puzzle)[c])

is_valid(puzzle) ==
    /\ \A r \in 1 .. MAX_ROWS : ViewOk(rows(puzzle)[r])
    /\ \A c \in 1 .. MAX_COLS : ViewOk(cols(puzzle)[c])
    /\ \A s \in 1 .. MAX_SQUARES : ViewOk(squares(puzzle)[s])

(*************************************************************************)
(* The solver's helpers.                                                 *)
(*************************************************************************)
\* set_field that leaves the grid as it was (the assignment lost).
set_field_lost(puzzle, index, value) == puzzle

set_field(puzzle, index, value) == [puzzle EXCEPT ![index] = Filled(value)]

\* get_first_empty_index with the test of find inverted (field != Empty).
get_first_filled_index(puzzle) ==
    IF \E i \in Cells : puzzle[i] # Empty
    THEN Some(CHOOSE i \in Cells :
                /\ puzzle[i] # Empty
                /\ \A j \in Cells : puzzle[j] # Empty => i <= j)
    ELSE None

get_first_empty_index(puzzle) ==
    IF \E i \in Cells : puzzle[i] = Empty
    THEN Some(CHOOSE i \in Cells :
                /\ puzzle[i] = Empty
                /\ \A j \in Cells : puzzle[j] = Empty => i <= j)
    ELSE None

\* possible_values listed from 9 down to 1.
possible_values_descending == <<9, 8, 7, 6, 5, 4, 3, 2, 1>>

possible_values == <<1, 2, 3, 4, 5, 6, 7, 8, 9>>

\* get_possible_values without the test against the square.
get_possible_values_without_square(puzzle, index) ==
    LET row == row_of(puzzle, index)
        col == col_of(puzzle, index)
        Keep(value) ==
            LET not_in_row == ~Contains(row, Filled(value))
                not_in_col == ~Contains(col, Filled(value))
            IN  not_in_row /\ not_in_col
    IN  SelectSeq(possible_values, Keep)

get_possible_values(puzzle, index) ==
    LET row == row_of(puzzle, index)
        col == col_of(puzzle, index)
        square == square_of(puzzle, index)
        Keep(value) ==
            LET not_in_row == ~Contains(row, Filled(value))
                not_in_col == ~Contains(col, Filled(value))
                not_in_square == ~Contains(square, Filled(value))
            IN  not_in_row /\ not_in_col /\ not_in_square
    IN  SelectSeq(possible_values, Keep)


(*************************************************************************)
(* Text is a sequence of characters, each a string of length one.        *)
(*************************************************************************)
DigitChars == <<"0", "1", "2", "3", "4", "5", "6", "7", "8", "9">>

\* char::is_whitespace, for the characters the model uses.
Whitespace == {" ", "\n", "\t", "\r"}

\* The concatenation of the sequences of seqs, in order.
RECURSIVE Flatten(_)
Flatten(seqs) ==
    IF Len(seqs) = 0 THEN << >>
    ELSE IF Len(seqs) = 1 THEN seqs[1]
    ELSE LET mid == Len(seqs) \div 2
         IN  Flatten(SubSeq(seqs, 1, mid)) \o Flatten(SubSeq(seqs, mid + 1, Len(seqs)))

\* Display of an unsigned integer: its decimal digits.
RECURSIVE Decimal(_)
Decimal(n) ==
    IF n < 10
    THEN <<DigitChars[n + 1]>>
    ELSE Decimal(n \div 10) \o <<DigitChars[(n % 10) + 1]>>

\* impl fmt::Debug for Field
DebugField(field) == IF field = Empty THEN <<"*">> ELSE Decimal(field[2])

\* impl fmt::Debug for Sudoku: "{:?} " for each element of each row, and a
\* newline after each row.
DebugRow(row) == Flatten([k \in DOMAIN row |-> DebugField(row[k]) \o <<" ">>]) \o <<"\n">>
DebugSudoku(puzzle) == Flatten([r \in 1 .. MAX_ROWS |-> DebugRow(rows(puzzle)[r])])

\* BufRead::lines: the text cut at each "\n", a "\r" before it dropped; what
\* follows the last "\n" is a line only if it is not empty.
StripCR(line) ==
    IF line # << >> /\ line[Len(line)] = "\r" THEN SubSeq(line, 1, Len(line) - 1) ELSE line

\* The first position from start on where text holds a character of stops,
\* Len(text) + 1 if there is none.
FirstAt(text, start, stops) ==
    CHOOSE p \in start .. (Len(text) + 1) :
        /\ p = Len(text) + 1 \/ text[p] \in stops
        /\ \A q \in start .. (p - 1) : text[q] \notin stops

RECURSIVE LinesFrom(_, _)
LinesFrom(text, start) ==
    IF start > Len(text)
    THEN << >>
    ELSE LET end == FirstAt(text, start, {"\n"})
         IN  <<StripCR(SubSeq(text, start, end - 1))>> \o LinesFrom(text, end + 1)

Lines(text) == LinesFrom(text, 1)

\* str::split_whitespace: the maximal runs of non-whitespace characters.
RECURSIVE SplitFrom(_, _)
SplitFrom(line, start) ==
    IF start > Len(line)
    THEN << >>
    ELSE IF line[start] \in Whitespace
         THEN SplitFrom(line, start + 1)
         ELSE LET end == FirstAt(line, start, Whitespace)
              IN  <<SubSeq(line, start, end - 1)>> \o SplitFrom(line, end + 1)

split_whitespace(line) == SplitFrom(line, 1)

\* char::is_digit(10) and char::to_digit(10)
is_digit(c) == \E d \in DOMAIN DigitChars : DigitChars[d] = c
to_digit(c) == (CHOOSE d \in DOMAIN DigitChars : DigitChars[d] = c) - 1

\* read_square without the branch for '*'.
read_square_without_blank(square, fields, index) ==
    IF Len(square) # 1
    THEN None
    ELSE LET c == square[1]
         IN  IF is_digit(c)
             THEN LET digit == to_digit(c)
                  IN  IF digit >= 1 /\ digit <= 9
                      THEN IF index \in DOMAIN fields
                           THEN Some([fields EXCEPT ![index] = Filled(digit)])
                           ELSE Panicked
                      ELSE None
             ELSE None

\* read_square with the index checked against the length of fields, a
\* token past the last cell being an early return.
read_square_bounded(square, fields, index) ==
    IF Len(square) # 1 \/ index \notin DOMAIN fields
    THEN None
    ELSE LET c == square[1]
         IN  IF is_digit(c)
             THEN LET digit == to_digit(c)
                  IN  IF digit >= 1 /\ digit <= 9
                      THEN Some([fields EXCEPT ![index] = Filled(digit)])
                      ELSE None
             ELSE IF c = "*"
                  THEN Some([fields EXCEPT ![index] = Empty])
                  ELSE None

\* The body of read_from's inner loop for one token: None for the early
\* returns, Panicked for an assignment past the end of fields, else the
\* fields after the assignment.
read_square(square, fields, index) ==
    IF Len(square) # 1
    THEN None
    ELSE LET c == square[1]
         IN  IF is_digit(c)
             THEN LET digit == to_digit(c)
                  IN  IF digit >= 1 /\ digit <= 9
                      THEN IF index \in DOMAIN fields
                           THEN Some([fields EXCEPT ![index] = Filled(digit)])
                           ELSE Panicked
                      ELSE None
             ELSE IF c = "*"
                  THEN IF index \in DOMAIN fields
                       THEN Some([fields EXCEPT ![index] = Empty])
                       ELSE Panicked
                  ELSE None

\* The two nested loops of read_from over tokens lo .. hi of all lines in
\* order, entered with state = Some(fields): the tokens are taken from left
\* to right, token k with index = k - 1, and the first early return or
\* panic ends the loops.
RECURSIVE read_loop(_, _, _, _)
read_loop(tokens, lo, hi, state) ==
    IF ~IsSome(state) \/ lo > hi
    THEN state
    ELSE IF lo = hi
         THEN read_square(tokens[lo], Unwrap(state), lo - 1)
         ELSE LET mid == (lo + hi) \div 2
              IN  read_loop(tokens, mid + 1, hi, read_loop(tokens, lo, mid, state))

read_from(text) ==
    LET lines == Lines(text)
        all_tokens == Flatten([l \in DOMAIN lines |-> split_whitespace(lines[l])])
    IN  read_loop(all_tokens, 1, Len(all_tokens), Some([i \in Cells |-> Empty]))

(*************************************************************************)
(* State.                                                                *)
(*   input    the Sudoku handed to solve                                 *)
(*   stack    the activations of solve_impl, innermost last; each holds  *)
(*            its own puzzle, the index it found, the candidate values   *)
(*            the fold has not consumed yet and the fold's accumulator   *)
(*   outcome  "idle" before solve, "running" during it, then "returned"  *)
(*            (solve returned a Sudoku) or "panicked" (unwrap on None)   *)
(*   result   the Sudoku solve returned, None until then                 *)
(*   source   the text handed to read_from, a sequence of characters     *)
(*   parsed   what read_from returned for it (Some(fields), None) or     *)
(*            Panicked; NotRun until it is called                        *)
(*   probe    the last call of row_of, col_of, square_of or is_valid and *)
(*            what it returned; NotRun before                            *)
(*************************************************************************)
VARIABLES input, stack, outcome, result, source, parsed, probe

vars == <<input, stack, outcome, result, source, parsed, probe>>

(*************************************************************************)
(* solve and solve_impl.                                                 *)
(*************************************************************************)
\* Entry of solve_impl(puzzle): the index and, for Some(index), the
\* candidate values the fold will run over, with the accumulator None.
Activation(puzzle) ==
    LET index == get_first_empty_index(puzzle)
    IN  [puzzle |-> puzzle,
         index |-> index,
         values |-> IF IsSome(index)
                    THEN get_possible_values(puzzle, Unwrap(index))
                    ELSE << >>,
         prev_result |-> None]

Top == stack[Len(stack)]
Caller == Len(stack) - 1

\* ReturnValue with a full grid accepted without asking is_valid.
ReturnValueUnchecked(frame) ==
    IF IsSome(frame.index) THEN frame.prev_result ELSE Some(frame.puzzle)

\* What the activation on top returns once it has nothing left to do.
ReturnValue(frame) ==
    IF IsSome(frame.index)
    THEN frame.prev_result
    ELSE IF is_valid(frame.puzzle) THEN Some(frame.puzzle) ELSE None

\* solve(self): the call Self::solve_impl(self).
solve ==
    /\ outcome = "idle"
    /\ stack' = <<Activation(input)>>
    /\ outcome' = "running"
    /\ UNCHANGED <<input, result, source, parsed, probe>>

\* One turn of the fold's closure with prev_result = None: clone, set_field,
\* and the recursive call.
fold_recurse ==
    /\ outcome = "running"
    /\ IsSome(Top.index)
    /\ Top.values # << >>
    /\ ~IsSome(Top.prev_result)
    /\ LET index == Unwrap(Top.index)
           value == Head(Top.values)
           puzzle == set_field(Top.puzzle, index, value)
       IN  stack' = Append([stack EXCEPT ![Len(stack)].values = Tail(@)],
                           Activation(puzzle))
    /\ UNCHANGED <<input, outcome, result, source, parsed, probe>>

\* One turn of the fold's closure with prev_result = Some(_): the value is
\* consumed and the accumulator handed on.
fold_skip ==
    /\ outcome = "running"
    /\ IsSome(Top.index)
    /\ Top.values # << >>
    /\ IsSome(Top.prev_result)
    /\ stack' = [stack EXCEPT ![Len(stack)].values = Tail(@)]
    /\ UNCHANGED <<input, outcome, result, source, parsed, probe>>

\* solve_impl returns to the closure that called it, which returns the
\* same Option as the fold's new accumulator.
return_to_fold ==
    /\ outcome = "running"
    /\ Len(stack) > 1
    /\ Top.values = << >>
    /\ stack' = [SubSeq(stack, 1, Caller) EXCEPT ![Caller].prev_result = ReturnValue(Top)]
    /\ UNCHANGED <<input, outcome, result, source, parsed, probe>>

\* The outermost solve_impl returns to solve, which unwraps.
return_to_solve ==
    /\ outcome = "running"
    /\ Len(stack) = 1
    /\ Top.values = << >>
    /\ stack' = << >>
    /\ IF IsSome(ReturnValue(Top))
       THEN /\ outcome' = "returned"
            /\ result' = ReturnValue(Top)
       ELSE /\ outcome' = "panicked"
            /\ result' = None
    /\ UNCHANGED <<input, source, parsed, probe>>

(*************************************************************************)
(* The puzzles solve is run on: every test grid with at most one cell    *)
(* replaced by any field, the empty grid, and the answer of easy_solve   *)
(* with some cells of an interchangeable rectangle blanked.              *)
(*************************************************************************)
Fields == {Empty} \cup {Filled(d) : d \in Digits}

AlteredAt(base, cells) == {[base EXCEPT ![i] = f] : i \in cells, f \in Fields}
Altered(base) == AlteredAt(base, Cells)

Blanked(base, cells) == [i \in Cells |-> IF i \in cells THEN Empty ELSE base[i]]

\* Two pairs of rows of EasyAnswer that hold the same two digits in the same
\* two columns of one stack: blanking all four cells leaves two completions.
Rectangles == {{6, 8, 78, 80}, {15, 16, 60, 61}}

SolveInputs ==
    UNION {Altered(base) : base \in {EasyPuzzle, EasyAnswer, ValidPuzzle, RowIterPuzzle}}
    \cup {EmptyPuzzle}
    \cup {Blanked(EasyAnswer, cells) : cells \in UNION {SUBSET rect : rect \in Rectangles}}

Init ==
    /\ input \in SolveInputs
    /\ stack = << >>
    /\ outcome = "idle"
    /\ result = None
    /\ source = << >>
    /\ parsed = NotRun
    /\ probe = NotRun

Next ==
    \/ solve
    \/ fold_recurse
    \/ fold_skip
    \/ return_to_fold
    \/ return_to_solve

Spec == Init /\ [][Next]_vars

\* The program runs to completion: it is single-threaded and synchronous, so
\* a step that can be taken is taken.
TerminationInputs ==
    UNION {Altered(base) : base \in {EasyAnswer, ValidPuzzle, RowIterPuzzle}}
    \cup AlteredAt(EasyPuzzle, 0 .. (MAX_COLS - 1))
    \cup {EmptyPuzzle}
    \cup {Blanked(EasyAnswer, cells) : cells \in UNION {SUBSET rect : rect \in Rectangles}}

FairInit ==
    /\ input \in TerminationInputs
    /\ stack = << >>
    /\ outcome = "idle"
    /\ result = None
    /\ source = << >>
    /\ parsed = NotRun
    /\ probe = NotRun

FairSpec == FairInit /\ [][Next]_vars /\ WF_vars(Next)

(*************************************************************************)
(* The parser and the formatter.  A run either formats a grid and reads  *)
(* the text back, or reads a text given from outside: the rendering of a *)
(* test grid with one token replaced by a malformed one, or followed by  *)
(* up to MaxExtra more tokens.                                           *)
(*************************************************************************)
\* write!(stdout, "{:?}", &puzzle) of main.rs, into source.
fmt ==
    /\ source = << >>
    /\ parsed = NotRun
    /\ source' = DebugSudoku(input)
    /\ UNCHANGED <<input, stack, outcome, result, parsed, probe>>

\* Sudoku::read_from(source)
call_read_from ==
    /\ source # << >>
    /\ parsed = NotRun
    /\ parsed' = read_from(source)
    /\ UNCHANGED <<input, stack, outcome, result, source, probe>>

MaxExtra == 2

MalformedTokens == {<<"2", "2">>, <<"0">>, <<"L">>, <<"$">>, <<"*", "*">>, <<"1", "0">>}
ExtraTokens == {<<"5">>, <<"*">>, <<"L">>, <<"2", "2">>}

Splice(text, p, token) == SubSeq(text, 1, p - 1) \o token \o SubSeq(text, p + 1, Len(text))

WithMalformed(text) ==
    {Splice(text, p, token) :
        p \in {q \in DOMAIN text : text[q] \notin Whitespace}, token \in MalformedTokens}

Extended(text) ==
    {text \o Flatten([k \in DOMAIN extra |-> extra[k] \o <<" ">>]) \o <<"\n">> :
        extra \in UNION {[1 .. n -> ExtraTokens] : n \in 1 .. MaxExtra}}

\* The text cut short after any of its characters, and a stream of one
\* newline: fewer tokens than the grid has cells.
Truncated(text) == {SubSeq(text, 1, n) : n \in 1 .. (Len(text) - 1)} \cup {<<"\n">>}

TestPuzzles ==
    {EmptyPuzzle, FullPuzzle, RowIterPuzzle, SquareIterPuzzle, ValidPuzzle,
     EasyPuzzle, EasyAnswer}

ParseGrids == TestPuzzles \cup Altered(EmptyPuzzle) \cup Altered(EasyAnswer)

ParseInit ==
    /\ \/ /\ input \in ParseGrids
          /\ source = << >>
       \/ /\ input \in {FullPuzzle, EasyPuzzle}
          /\ source \in WithMalformed(DebugSudoku(input)) \cup Extended(DebugSudoku(input))
                          \cup Truncated(DebugSudoku(input))
    /\ stack = << >>
    /\ outcome = "idle"
    /\ result = None
    /\ parsed = NotRun
    /\ probe = NotRun

ParseNext == fmt \/ call_read_from

ParseSpec == ParseInit /\ [][ParseNext]_vars

(*************************************************************************)
(* The views and is_valid, called on grids given from outside.           *)
(*************************************************************************)
call_row_of ==
    /\ probe = NotRun
    /\ \E index \in Cells : probe' = <<"row_of", index, row_of(input, index)>>
    /\ UNCHANGED <<input, stack, outcome, result, source, parsed>>

call_col_of ==
    /\ probe = NotRun
    /\ \E index \in Cells : probe' = <<"col_of", index, col_of(input, index)>>
    /\ UNCHANGED <<input, stack, outcome, result, source, parsed>>

call_square_of ==
    /\ probe = NotRun
    /\ \E index \in Cells : probe' = <<"square_of", index, square_of(input, index)>>
    /\ UNCHANGED <<input, stack, outcome, result, source, parsed>>

call_is_valid ==
    /\ probe = NotRun
    /\ probe' = <<"is_valid", is_valid(input)>>
    /\ UNCHANGED <<input, stack, outcome, result, source, parsed>>

\* The empty grid with one cell filled: what a view returns for it tells
\* which cells the view read, and in which order.
MarkerGrids == {[EmptyPuzzle EXCEPT ![i] = Filled(1)] : i \in Cells}

\* base with the fields of two cells exchanged.
Swapped(base) ==
    {[base EXCEPT ![i] = base[j], ![j] = base[i]] : i \in Cells, j \in Cells}

ValidGrids ==
    TestPuzzles \cup Altered(ValidPuzzle) \cup Altered(EasyAnswer)
        \cup Swapped(ValidPuzzle) \cup Swapped(EasyAnswer)

Idle ==
    /\ stack = << >>
    /\ outcome = "idle"
    /\ result = None
    /\ source = << >>
    /\ parsed = NotRun
    /\ probe = NotRun

ViewInit == input \in (MarkerGrids \cup TestPuzzles) /\ Idle
ViewNext == call_row_of \/ call_col_of \/ call_square_of
ViewSpec == ViewInit /\ [][ViewNext]_vars

ValidInit == input \in ValidGrids /\ Idle
ValidNext == call_is_valid
ValidSpec == ValidInit /\ [][ValidNext]_vars

(*************************************************************************)
(* The vocabulary of the claims, stated on cell indices and independent  *)
(* of the iterators above.                                               *)
(*************************************************************************)
SpecRow(r) == {9 * r + k : k \in 0 .. 8}
SpecCol(c) == {c + 9 * k : k \in 0 .. 8}
SpecBlock(b) ==
    {3 * (b % 3) + 27 * (b \div 3) + (k % 3) + 9 * (k \div 3) : k \in 0 .. 8}

SpecViews ==
    {SpecRow(r) : r \in 0 .. 8} \cup {SpecCol(c) : c \in 0 .. 8}
        \cup {SpecBlock(b) : b \in 0 .. 8}

AllDigits == {Filled(d) : d \in Digits}

\* Every row, column and block is a permutation of 1..9 (so no cell is Empty).
IsSolved(grid) == \A view \in SpecViews : {grid[i] : i \in view} = AllDigits

\* No digit occurs twice among the Filled cells of a row, column or block.
NoRepeat(grid) ==
    \A view \in SpecViews :
        \A i \in view : grid[i] # Empty => \A j \in view : grid[j] = grid[i] => j = i

EmptyCells(grid) == {i \in Cells : grid[i] = Empty}

\* grid keeps every given of base.
KeepsGivens(base, grid) == \A i \in Cells : base[i] # Empty => grid[i] = base[i]

Fill(grid, digits) ==
    [i \in Cells |-> IF i \in DOMAIN digits THEN Filled(digits[i]) ELSE grid[i]]

\* Every valid completion of grid, by trying every filling of its Empty cells.
Completions(grid) ==
    {h \in {Fill(grid, digits) : digits \in [EmptyCells(grid) -> Digits]} : IsSolved(h)}

\* g comes no later than h when the digits at the cells of where are read in
\* ascending cell index.
LexLeq(g, h, where) ==
    \/ \A i \in where : g[i] = h[i]
    \/ \E i \in where :
          /\ g[i][2] < h[i][2]
          /\ \A j \in where : j < i => g[j] = h[j]

Done == outcome \in {"returned", "panicked"}

\* The largest number of Empty cells for which Completions is enumerated.
MaxEnum == 4

Enumerable(grid) == Cardinality(EmptyCells(grid)) <= MaxEnum

\* Valid grids known beforehand: the answer of easy_solve and the grid of
\* test is_valid.
KnownSolutions == {EasyAnswer, ValidPuzzle}

(*************************************************************************)
(* C1.  Whenever solve returns, the grid it returns has no Empty cell    *)
(* and each of its rows, columns and blocks is a permutation of 1..9.    *)
(*************************************************************************)
C1_SolvedOutputValid ==
    outcome = "returned" => IsSome(result) /\ IsSolved(Unwrap(result))

C1_Witness ==
    /\ outcome = "returned"
    /\ Cardinality(EmptyCells(input)) > 40
    /\ IsSolved(Unwrap(result))

(*************************************************************************)
(* C2.  If the input has a valid completion, solve returns, and it       *)
(* returns the completion whose digits at the input's Empty cells, read  *)
(* in ascending cell index, are lexicographically smallest; for the      *)
(* puzzle of easy_solve that is the answer listed in the test.  The      *)
(* completions are enumerated for inputs of at most MaxEnum Empty cells; *)
(* for the others the known valid grids that complete the input stand    *)
(* for them.                                                             *)
(*************************************************************************)
C2_FirstCompletion ==
    Done =>
        /\ \A known \in KnownSolutions :
              KeepsGivens(input, known) =>
                  /\ outcome = "returned"
                  /\ LexLeq(Unwrap(result), known, EmptyCells(input))
        /\ Enumerable(input) /\ Completions(input) # {} =>
              /\ outcome = "returned"
              /\ Unwrap(result) \in Completions(input)
              /\ \A h \in Completions(input) :
                    LexLeq(Unwrap(result), h, EmptyCells(input))
        /\ input = EasyPuzzle => result = Some(EasyAnswer)

\* An input with two completions, solved to the one that is not EasyAnswer.
C2_Witness ==
    /\ outcome = "returned"
    /\ Enumerable(input)
    /\ Cardinality(Completions(input)) = 2
    /\ Unwrap(result) # EasyAnswer

(*************************************************************************)
(* C3.  For a grid without valid completion (its givens repeat a digit   *)
(* in a row, column or block, or the enumeration finds no completion)    *)
(* solve never returns a grid: the search ends in the None of            *)
(* solve_impl, on which solve panics.                                    *)
(*************************************************************************)
Unsolvable(grid) ==
    \/ ~NoRepeat(grid)
    \/ Enumerable(grid) /\ Completions(grid) = {}

C3_UnsolvableSignalled ==
    Unsolvable(input) =>
        /\ outcome # "returned"
        /\ result = None
        /\ Done => outcome = "panicked"

\* A grid with a repeated given and Empty cells left, searched to exhaustion.
C3_Witness ==
    /\ outcome = "panicked"
    /\ ~NoRepeat(input)
    /\ Cardinality(EmptyCells(input)) > 40

(*************************************************************************)
(* C4.  Every given of the input keeps its digit in every grid the       *)
(* search visits, in every answer handed back and in the grid solve      *)
(* returns; the grid of a recursive call is its caller's grid with one   *)
(* cell assigned, and that cell is Empty in the caller's grid.           *)
(*************************************************************************)
AssignsEmptyCell(caller, callee) ==
    \E i \in Cells :
        /\ caller[i] = Empty
        /\ callee[i] # Empty
        /\ \A j \in Cells \ {i} : callee[j] = caller[j]

C4_GivensConserved ==
    /\ stack # << >> =>
          /\ KeepsGivens(input, Top.puzzle)
          /\ IsSome(Top.prev_result) => KeepsGivens(input, Unwrap(Top.prev_result))
          /\ Len(stack) > 1 => AssignsEmptyCell(stack[Caller].puzzle, Top.puzzle)
    /\ IsSome(result) => KeepsGivens(input, Unwrap(result))

C4_Witness ==
    /\ outcome = "returned"
    /\ input = EasyPuzzle
    /\ KeepsGivens(input, Unwrap(result))

(*************************************************************************)
(* C5.  solve terminates: the grid of each recursive call has exactly    *)
(* one Empty cell fewer than its caller's, so the recursion is never     *)
(* deeper than the number of Empty cells of the input, at most 81; and   *)
(* every run of solve ends, with a grid returned or the search space     *)
(* exhausted.                                                            *)
(*************************************************************************)
NumEmpty(grid) == Cardinality(EmptyCells(grid))

Depth == Len(stack) - 1

DepthBounded ==
    stack # << >> =>
        /\ NumEmpty(Top.puzzle) = NumEmpty(input) - Depth
        /\ Len(stack) > 1 => NumEmpty(Top.puzzle) = NumEmpty(stack[Caller].puzzle) - 1
        /\ Depth <= NumEmpty(input)
        /\ Depth <= MAX_INDEX

C5_Terminates == []DepthBounded /\ (outcome = "idle" ~> Done)

\* The all-Empty grid, at its deepest: 81 nested recursive calls.
C5_Witness ==
    /\ input = EmptyPuzzle
    /\ stack # << >>
    /\ Depth = MAX_INDEX
    /\ ~IsSome(Top.index)

(*************************************************************************)
(* C8.  If the givens repeat no digit in any row, column or block, no    *)
(* grid the search visits does, and every full grid it reaches passes    *)
(* is_valid.                                                             *)
(*************************************************************************)
C8_ValidByConstruction ==
    (stack # << >> /\ NoRepeat(input)) =>
        /\ NoRepeat(Top.puzzle)
        /\ ~IsSome(Top.index) => is_valid(Top.puzzle) /\ IsSolved(Top.puzzle)

\* A full grid reached by the search from a puzzle with Empty cells.
C8_Witness ==
    /\ stack # << >>
    /\ NoRepeat(input)
    /\ Cardinality(EmptyCells(input)) > 40
    /\ ~IsSome(Top.index)
    /\ is_valid(Top.puzzle)

(*************************************************************************)
(* C6.  read_from returns a parse failure (None) whenever some           *)
(* whitespace-delimited token of the text, at any position, is not one   *)
(* character of 1..9 or '*'.                                             *)
(*************************************************************************)
GoodChars == {"1", "2", "3", "4", "5", "6", "7", "8", "9", "*"}

\* Some token is malformed: a character outside GoodChars that is no
\* whitespace, or two characters of one token.
Malformed(text) ==
    \E p \in DOMAIN text :
        /\ text[p] \notin Whitespace
        /\ \/ text[p] \notin GoodChars
           \/ p < Len(text) /\ text[p + 1] \notin Whitespace

C6_MalformedRejected ==
    (parsed # NotRun /\ Malformed(source)) => parsed = None

(*************************************************************************)
(* C7.  The text fmt renders for a grid holds one token per cell in      *)
(* row-major order, '*' for Empty and the digit otherwise, one row per   *)
(* line; read_from of that text succeeds and returns the grid, cell for  *)
(* cell.                                                                 *)
(*************************************************************************)
TokenOf(field) == IF field = Empty THEN "*" ELSE DigitChars[field[2] + 1]

\* The text has MAX_ROWS lines of MAX_COLS one-character tokens, the token
\* of cell i being the (i % 9)-th of line i / 9, each followed by one space.
CanonicalText(text, grid) ==
    /\ Len(text) = MAX_ROWS * (2 * MAX_COLS + 1)
    /\ \A i \in Cells :
          LET at == (i \div 9) * (2 * MAX_COLS + 1) + 2 * (i % 9) + 1
          IN  text[at] = TokenOf(grid[i]) /\ text[at + 1] = " "
    /\ \A r \in 1 .. MAX_ROWS : text[r * (2 * MAX_COLS + 1)] = "\n"

C7_RoundTrip ==
    source = DebugSudoku(input) =>
        /\ CanonicalText(source, input)
        /\ parsed # NotRun => parsed = Some(input)

C7_Witness ==
    /\ source = DebugSudoku(input)
    /\ parsed = Some(input)
    /\ input = EasyPuzzle

(*************************************************************************)
(* C9.  For every index i, row_of(i), col_of(i) and square_of(i) yield   *)
(* 9 cells, cell i among them: row_of the cells at 9r .. 9r+8 with       *)
(* r = i/9, col_of the cells at c, c+9, .., c+72 with c = i%9, square_of *)
(* the cells at 3(b%3) + 27(b/3) + (k%3) + 9(k/3), k = 0..8, with        *)
(* b = (i%9)/3 + 3*((i/9)/3), in this order.                             *)
(*************************************************************************)
ClaimedIndices(call, i) ==
    LET r == i \div 9
        c == i % 9
        b == (i % 9) \div 3 + 3 * ((i \div 9) \div 3)
    IN  IF call = "row_of" THEN [k \in 0 .. 8 |-> 9 * r + k]
        ELSE IF call = "col_of" THEN [k \in 0 .. 8 |-> c + 9 * k]
        ELSE [k \in 0 .. 8 |-> 3 * (b % 3) + 27 * (b \div 3) + (k % 3) + 9 * (k \div 3)]

C9_ViewsOfIndex ==
    probe # NotRun =>
        LET call == probe[1]
            i == probe[2]
            view == probe[3]
            at == ClaimedIndices(call, i)
        IN  /\ Len(view) = 9
            /\ \A k \in 0 .. 8 : at[k] \in Cells /\ view[k + 1] = input[at[k]]
            /\ \E k \in 0 .. 8 : at[k] = i /\ view[k + 1] = input[i]

\* square_of of the marked cell 50, the last cell of square 4.
C9_Witness ==
    /\ probe # NotRun
    /\ probe[1] = "square_of"
    /\ probe[2] = 50
    /\ input[50] = Filled(1)
    /\ probe[3][9] = Filled(1)

(*************************************************************************)
(* C10.  is_valid returns true exactly when each of the 9 rows, 9        *)
(* columns and 9 blocks holds no Empty cell and 9 pairwise distinct      *)
(* values, that is, is a permutation of 1..9; it returns false for a     *)
(* grid with an Empty cell or a digit repeated in some view.             *)
(*************************************************************************)
FilledAndDistinct(grid, view) ==
    /\ \A i \in view : grid[i] # Empty
    /\ \A i \in view : \A j \in view : i # j => grid[i] # grid[j]

C10_IsValidIffPermutations ==
    (probe # NotRun /\ probe[1] = "is_valid") =>
        /\ probe[2] = (\A view \in SpecViews : FilledAndDistinct(input, view))
        /\ probe[2] = IsSolved(input)
        /\ (EmptyCells(input) # {} \/ ~NoRepeat(input)) => probe[2] = FALSE

\* The grid of test is_valid, found valid.
C10_Witness == probe = <<"is_valid", TRUE>> /\ input = ValidPuzzle

(*************************************************************************)
(* C11.  read_from checks the shape of each token and not their number.  *)
(* For a text of n well-formed tokens: with n < 81 it returns a grid     *)
(* (no parse failure) whose first n cells are the tokens in order and    *)
(* whose other cells are Empty; with n = 81 cell k of the grid is the    *)
(* k-th token; with n > 81 it returns no parse failure either, but fails *)
(* on the assignment past the end of the 81 cells, at the 82nd token.    *)
(*************************************************************************)
\* The tokens of a text whose tokens are all one character long.
TokenChars(text) == SelectSeq(text, LAMBDA c : c \notin Whitespace)

FieldOfToken(c) ==
    IF c = "*" THEN Empty ELSE Filled(CHOOSE d \in Digits : DigitChars[d + 1] = c)

GridOfTokens(chars) ==
    [i \in Cells |-> IF i < Len(chars) THEN FieldOfToken(chars[i + 1]) ELSE Empty]

C11_TokenCountUnchecked ==
    (parsed # NotRun /\ ~Malformed(source)) =>
        LET chars == TokenChars(source)
        IN  /\ parsed # None
            /\ Len(chars) <= MAX_INDEX => parsed = Some(GridOfTokens(chars))
            /\ Len(chars) > MAX_INDEX => parsed = Panicked

\* The first 40 tokens of the rendering of test full_puzzle's grid, read as
\* a grid whose cell 39 is the 40th token and whose cell 40 is Empty.
C11_Witness ==
    /\ ~Malformed(source)
    /\ Len(TokenChars(source)) = 40
    /\ input = FullPuzzle
    /\ IsSome(parsed)
    /\ Unwrap(parsed)[39] = Filled(4)
    /\ Unwrap(parsed)[40] = Empty

=============================================================================
